---------------------------- MODULE Spec2Model ----------------------------
(***************************************************************************)
(* Model of relik/inference/data/window/manager.py (class WindowManager):  *)
(* create_windows (window construction) and merge_windows (the fold of     *)
(* _merge_window_pair over the windows of each document).                  *)
(*                                                                         *)
(* Conventions.  None is the empty sequence <<>> and a present optional    *)
(* value v is <<v>>.  A Python str is a sequence of one-character strings. *)
(* A dict is a function; a dict keyed by str(i) is a function whose domain *)
(* is a set of decimal strings.                                            *)
(***************************************************************************)
EXTENDS Integers, Sequences, FiniteSets, TLC

----------------------------------------------------------------------------
(* Bounds of the model *)

MaxDocs == 2
MaxDocLen == 2
MaxMentions == 1
MaxChar == 3
MaxWindowSize == 2
MaxRoundTripLen == 3
MaxContentLen == 3
MaxPairWindows == 2
MaxFoldWindows == 3
MaxTriples == 1

----------------------------------------------------------------------------
(* Generic helpers *)

None == <<>>
Some(v) == <<v>>
IsNone(o) == o = <<>>
Val(o) == o[1]

SeqsUpTo(S, n) == UNION {[1..k -> S] : k \in 0..n}

Range(s) == {s[j] : j \in DOMAIN s}

Max(a, b) == IF a >= b THEN a ELSE b
Min(a, b) == IF a <= b THEN a ELSE b

\* Python slice s[lo:hi] with 0 <= lo, 0 <= hi (0-based, hi exclusive, clipped)
Slice(s, lo, hi) == SubSeq(s, lo + 1, Min(hi, Len(s)))

\* Python str(i) of a non-negative int and int(s) of such a string
MaxKey == 32
str(n) == ToString(n)
int(s) == CHOOSE n \in 0..MaxKey : ToString(n) = s

RECURSIVE DictOf(_)
\* dict built from a sequence of <<key, value>> pairs; a later pair with the
\* same key replaces the earlier one (dict comprehension / dict.update)
DictOf(pairs) ==
    IF pairs = <<>> THEN <<>>
    ELSE LET n == Len(pairs)
             rest == DictOf(SubSeq(pairs, 1, n - 1))
         IN  (pairs[n][1] :> pairs[n][2]) @@ rest

----------------------------------------------------------------------------
(* Documents, the tokenizer and the splitter (external collaborators) *)

Words == {<<"a">>, <<"b", "b">>}
WordSeqs == SeqsUpTo(Words, MaxDocLen)

RECURSIVE Join(_)
\* " ".join(words)
Join(ws) ==
    IF ws = <<>> THEN <<>>
    ELSE IF Len(ws) = 1 THEN ws[1]
    ELSE Join(SubSeq(ws, 1, Len(ws) - 1)) \o <<" ">> \o ws[Len(ws)]

RECURSIVE SplitWords(_, _, _)
\* the whitespace-separated words of a str, each with the offset of its
\* first character: a sequence of <<text, idx>>
SplitWords(chars, pos, cur) ==
    IF pos > Len(chars)
    THEN IF cur = <<>> THEN <<>> ELSE << <<cur, pos - 1 - Len(cur)>> >>
    ELSE IF chars[pos] = " "
         THEN (IF cur = <<>> THEN <<>> ELSE << <<cur, pos - 1 - Len(cur)>> >>)
              \o SplitWords(chars, pos + 1, <<>>)
         ELSE SplitWords(chars, pos + 1, Append(cur, chars[pos]))

\* self.tokenizer(documents, is_split_into_words): one TokenRecord per word,
\* with text, idx (offset of the first character) and i (index in the document)
Tokenize(document, is_split) ==
    LET ws == SplitWords(IF is_split THEN Join(document) ELSE document, 1, <<>>)
    IN  [j \in 1..Len(ws) |-> [text |-> ws[j][1], idx |-> ws[j][2], i |-> j - 1]]

RECURSIVE SplitterFrom(_, _, _, _)
\* self.splitter(document_tokens): sliding groups of window_size tokens, one
\* every window_stride tokens
SplitterFrom(toks, start, size, stride) ==
    IF start >= Len(toks) THEN <<>>
    ELSE <<Slice(toks, start, start + size)>>
         \o SplitterFrom(toks, start + stride, size, stride)

Splitter(toks, size, stride) == SplitterFrom(toks, 0, size, stride)

----------------------------------------------------------------------------
(* State *)

VARIABLES
    pc,                        \* position in create_windows / merge_windows
    documents,                 \* create_windows: the documents argument
    is_split_into_words,
    mentions,                  \* None or Some(one mention list per document)
    window_size, stride,       \* splitter settings
    doc_topic,                 \* the doc_topic argument / local variable
    documents_tokens,
    doc_id,                    \* loop index of the document loop
    splitted_document,
    window_id,                 \* loop index of the window loop
    document_windows,
    windowed_documents,
    windowed_blank_documents,
    windows,                   \* merge_windows: the samples passed in
    windows_by_doc_id,         \* <<doc_id, refs>> in first-seen order
    merged_window_by_doc,      \* <<doc_id, ref, sample>> per merged document
    cur,                       \* documents already merged
    doc_windows,               \* _merge_doc_windows: the (sorted) windows
    next_pos,                  \* position of next_window in doc_windows
    window_accumulator         \* [ref, sample]; ref = 0 for a new sample

createVars == <<documents, is_split_into_words, mentions, window_size, stride,
                doc_topic, documents_tokens, doc_id, splitted_document,
                window_id, document_windows, windowed_documents,
                windowed_blank_documents>>

mergeVars == <<windows, windows_by_doc_id, merged_window_by_doc, cur,
               doc_windows, next_pos, window_accumulator>>

vars == <<pc, createVars, mergeVars>>

\* create_windows / merge_windows not called
CreateIdle ==
    /\ documents = <<>> /\ is_split_into_words = FALSE /\ mentions = None
    /\ window_size = 1 /\ stride = 1 /\ doc_topic = None
    /\ documents_tokens = <<>> /\ doc_id = 0 /\ splitted_document = <<>>
    /\ window_id = 0 /\ document_windows = <<>>
    /\ windowed_documents = <<>> /\ windowed_blank_documents = <<>>

MergeIdle ==
    /\ windows = <<>> /\ windows_by_doc_id = <<>>
    /\ merged_window_by_doc = <<>> /\ cur = 0 /\ doc_windows = <<>>
    /\ next_pos = 0 /\ window_accumulator = <<>>

----------------------------------------------------------------------------
(* create_windows *)

StrDocs == {Join(ws) : ws \in WordSeqs}

MentionPairs == {<<s, e>> : s \in 0..MaxChar, e \in 0..MaxChar}

StrTopic == [str |-> <<"t">>]
EmptyStr == [str |-> <<>>]

\* a mention on the first character of a document
FirstCharMention == <<0, 1>>

\* one str document with any mention list, with or without a doc_topic
SpanInputs ==
    {[documents |-> <<doc>>, is_split_into_words |-> FALSE,
      mentions |-> Some(<<ml>>), doc_topic |-> topic] :
        doc \in StrDocs, ml \in SeqsUpTo(MentionPairs, MaxMentions),
        topic \in {None, Some(StrTopic)}}

\* a list of str documents, without mentions or with the same mention list
\* for every document
BatchInputs ==
    UNION {{[documents |-> docs, is_split_into_words |-> FALSE,
             mentions |-> ms, doc_topic |-> None] :
               ms \in {None,
                       Some([d \in 1..Len(docs) |-> <<>>]),
                       Some([d \in 1..Len(docs) |-> <<FirstCharMention>>])}} :
           docs \in UNION {[1..n -> StrDocs] : n \in 0..MaxDocs}}

\* one pre-tokenized word list
WordInputs ==
    {[documents |-> <<ws>>, is_split_into_words |-> TRUE,
      mentions |-> None, doc_topic |-> None] : ws \in WordSeqs}

\* the state on entry of create_windows with the given arguments
CreateCalled(args) ==
    /\ pc = "create_windows"
    /\ documents = args.documents
    /\ is_split_into_words = args.is_split_into_words
    /\ mentions = args.mentions
    /\ doc_topic = args.doc_topic
    /\ window_size \in 1..MaxWindowSize
    /\ stride \in 1..window_size
    /\ documents_tokens = <<>>
    /\ doc_id = 0
    /\ splitted_document = <<>>
    /\ window_id = 0
    /\ document_windows = <<>>
    /\ windowed_documents = <<>>
    /\ windowed_blank_documents = <<>>
    /\ MergeIdle

InitCreate ==
    \/ \E args \in SpanInputs : CreateCalled(args)
    \/ \E args \in BatchInputs : CreateCalled(args)
    \/ \E args \in WordInputs : CreateCalled(args)

\* lines 52-74: tokenize the batch, check the mentions' length
CreateEnter ==
    /\ pc = "create_windows"
    /\ documents_tokens' =
          [d \in 1..Len(documents) |-> Tokenize(documents[d], is_split_into_words)]
    /\ pc' = IF ~IsNone(mentions) /\ Len(documents) # Len(Val(mentions))
             THEN "AssertionError" ELSE "doc_loop"
    /\ UNCHANGED <<documents, is_split_into_words, mentions, window_size,
                   stride, doc_topic, doc_id, splitted_document, window_id,
                   document_windows, windowed_documents,
                   windowed_blank_documents, mergeVars>>

\* the document's mention list: zip(..., mentions) or itertools.repeat([])
DocumentMentions(d) == IF IsNone(mentions) THEN <<>> ELSE Val(mentions)[d]

\* lines 79-80
DocTopicFor(topic, document_tokens) ==
    IF IsNone(topic)
    THEN Some(IF Len(document_tokens) > 0 THEN document_tokens[1] ELSE EmptyStr)
    ELSE topic

\* lines 76-84: next document of the loop: doc_topic, splitter
NextDocument ==
    /\ pc = "doc_loop"
    /\ doc_id < Len(documents)
    /\ doc_topic' = DocTopicFor(doc_topic, documents_tokens[doc_id + 1])
    /\ splitted_document' = Splitter(documents_tokens[doc_id + 1], window_size, stride)
    /\ document_windows' = <<>>
    /\ window_id' = 0
    /\ pc' = "window_loop"
    /\ UNCHANGED <<documents, is_split_into_words, mentions, window_size,
                   stride, documents_tokens, doc_id, windowed_documents,
                   windowed_blank_documents, mergeVars>>

WindowTextStart(window) == window[1].idx
WindowTextEnd(window) == window[Len(window)].idx + Len(window[Len(window)].text)

\* variant: a mention merely overlapping the window is attached
MentionOverlaps(m, wstart, wend) ==
    wend > m[1] /\ m[2] >= wstart

\* lines 102-105: the mentions attached to a window
MentionFits(m, wstart, wend) ==
    /\ wend > m[1] /\ m[1] >= wstart
    /\ wend >= m[2] /\ m[2] >= wstart

SelectSpans(document_mentions, wstart, wend) ==
    SelectSeq(document_mentions, LAMBDA m : MentionFits(m, wstart, wend))

\* variant: the window-local index is stored
Char2TokenLocal(w, k) == k

\* lines 110-115: the value stored under a character offset
Char2TokenValue(w, k) == w.i

\* lines 94-116: the sample built for one window
MakeSample(d, wid, document, is_split, window, topic, document_mentions) ==
    LET wstart == WindowTextStart(window)
        wend == WindowTextEnd(window)
        n == Len(window)
    IN  [ doc_id |-> d,
          window_id |-> wid,
          text |-> IF is_split
                   THEN Join([j \in 1..n |-> window[j].text])
                   ELSE Slice(document, wstart, wend),
          tokens |-> [j \in 1..n |-> window[j].text],
          words |-> [j \in 1..n |-> window[j].text],
          doc_topic |-> topic,
          offset |-> wstart,
          spans |-> SelectSpans(document_mentions, wstart, wend),
          token2char_start |->
              DictOf([j \in 1..n |-> <<str(j - 1), window[j].idx>>]),
          token2char_end |->
              DictOf([j \in 1..n |->
                        <<str(j - 1), window[j].idx + Len(window[j].text)>>]),
          char2token_start |->
              DictOf([j \in 1..n |->
                        <<str(window[j].idx), Char2TokenValue(window[j], j - 1)>>]),
          char2token_end |->
              DictOf([j \in 1..n |->
                        <<str(window[j].idx + Len(window[j].text)),
                          Char2TokenValue(window[j], j - 1)>>]) ]

\* variant: a window without spans is blank whether or not mentions were given
IsBlankWithoutSpans(ms, sample) == Len(sample.spans) = 0

\* lines 117-120
IsBlank(ms, sample) == ~IsNone(ms) /\ Len(sample.spans) = 0

\* lines 85-120: one iteration of the window loop
BuildWindow ==
    /\ pc = "window_loop"
    /\ window_id < Len(splitted_document)
    /\ LET sample == MakeSample(doc_id, window_id, documents[doc_id + 1],
                                is_split_into_words,
                                splitted_document[window_id + 1],
                                Val(doc_topic), DocumentMentions(doc_id + 1))
       IN  IF IsBlank(mentions, sample)
           THEN /\ windowed_blank_documents' = Append(windowed_blank_documents, sample)
                /\ UNCHANGED document_windows
           ELSE /\ document_windows' = Append(document_windows, sample)
                /\ UNCHANGED windowed_blank_documents
    /\ window_id' = window_id + 1
    /\ UNCHANGED <<pc, documents, is_split_into_words, mentions, window_size,
                   stride, doc_topic, documents_tokens, doc_id,
                   splitted_document, windowed_documents, mergeVars>>

\* line 122: the windows of the document join the primary output
EndDocument ==
    /\ pc = "window_loop"
    /\ window_id = Len(splitted_document)
    /\ windowed_documents' = windowed_documents \o document_windows
    /\ doc_id' = doc_id + 1
    /\ pc' = "doc_loop"
    /\ UNCHANGED <<documents, is_split_into_words, mentions, window_size,
                   stride, doc_topic, documents_tokens, splitted_document,
                   window_id, document_windows, windowed_blank_documents,
                   mergeVars>>

\* line 123
CreateReturn ==
    /\ pc = "doc_loop"
    /\ doc_id = Len(documents)
    /\ pc' = "created"
    /\ UNCHANGED <<createVars, mergeVars>>

----------------------------------------------------------------------------
(* Samples as seen by the merger: every attribute the merge reads through   *)
(* getattr, with None for an attribute the sample does not carry            *)

BlankSample ==
    [ doc_id |-> 0, offset |-> None, tokens |-> <<>>, words |-> <<>>,
      token2char_start |-> <<>>, token2char_end |-> <<>>,
      token2word_start |-> None, token2word_end |-> None,
      window_labels |-> None,
      candidates |-> None, windows_candidates |-> None,
      span_candidates |-> None, triplet_candidates |-> None,
      predicted_spans |-> None, probs_window_labels_chars |-> None,
      predicted_spans_probs |-> None,
      predicted_triples |-> None, predicted_triples_probs |-> None ]

\* a sample built by create_windows, as the merger reads it
SampleAttrs(s) ==
    [BlankSample EXCEPT !.doc_id = s.doc_id, !.offset = Some(s.offset),
                        !.tokens = s.tokens, !.words = s.words,
                        !.token2char_start = s.token2char_start,
                        !.token2char_end = s.token2char_end]

----------------------------------------------------------------------------
(* _merge_tokens / _merge_words *)

\* s[-k:] for 1 <= k, and s[:k]
Suffix(s, k) == SubSeq(s, Max(Len(s) - k, 0) + 1, Len(s))
Prefix(s, k) == Slice(s, 0, k)

\* s[1:-1]
StripMarkers(s) == SubSeq(s, 2, Len(s) - 1)

RECURSIVE ScanIntersection(_, _, _)
\* the loop over reversed(range(1, ...)): the first k, scanning downwards,
\* with w1[-k:] == w2[:k]; 0 when the loop ends without a match
ScanIntersection(w1, w2, k) ==
    IF k < 1 THEN 0
    ELSE IF Suffix(w1, k) = Prefix(w2, k) THEN k
    ELSE ScanIntersection(w1, w2, k - 1)

\* variant: the scan starts at len(w1)
FindIntersectionFull(w1, w2) == ScanIntersection(w1, w2, Len(w1))

\* lines 163-167 and 202-206: for k in reversed(range(1, len(w1)))
FindIntersection(w1, w2) == ScanIntersection(w1, w2, Len(w1) - 1)

\* variant: an entry of the first map is kept when a shifted key collides
MergeMappingKeepFirst(t2c1, t2c2, intersection, w2_starting_offset) ==
    LET kept == {t \in DOMAIN t2c2 : ~(int(t) < intersection)}
        shifted == {str(int(t) + w2_starting_offset) : t \in kept}
        src(key) == CHOOSE t \in kept : str(int(t) + w2_starting_offset) = key
    IN  [key \in (DOMAIN t2c1) \cup shifted |->
            IF key \in DOMAIN t2c1 THEN t2c1[key] ELSE t2c2[src(key)]]

\* lines 178-186 and 212-224 (None already replaced by an empty dict)
MergeMapping(t2c1, t2c2, intersection, w2_starting_offset) ==
    LET kept == {t \in DOMAIN t2c2 : ~(int(t) < intersection)}
        shifted == {str(int(t) + w2_starting_offset) : t \in kept}
        src(key) == CHOOSE t \in kept : str(int(t) + w2_starting_offset) = key
    IN  [key \in (DOMAIN t2c1) \cup shifted |->
            IF key \in shifted THEN t2c2[src(key)] ELSE t2c1[key]]

merge_char_mapping(t2c1, t2c2, intersection, w2_starting_offset) ==
    MergeMapping(t2c1, t2c2, intersection, w2_starting_offset)

merge_word_mapping(t2c1, t2c2, intersection, w2_starting_offset) ==
    MergeMapping(IF IsNone(t2c1) THEN <<>> ELSE Val(t2c1),
                 IF IsNone(t2c2) THEN <<>> ELSE Val(t2c2),
                 intersection, w2_starting_offset)

\* lines 156-192
MergeTokens(window1, window2) ==
    LET w1_tokens == StripMarkers(window1.tokens)
        w2_tokens == StripMarkers(window2.tokens)
        tokens_intersection == FindIntersection(w1_tokens, w2_tokens)
        w2_starting_offset == Len(w1_tokens) - tokens_intersection
    IN  [ tokens |-> <<window1.tokens[1]>> \o w1_tokens
                     \o SubSeq(w2_tokens, tokens_intersection + 1, Len(w2_tokens))
                     \o <<window1.tokens[Len(window1.tokens)]>>,
          token2char_start |->
              merge_char_mapping(window1.token2char_start, window2.token2char_start,
                                 tokens_intersection, w2_starting_offset),
          token2char_end |->
              merge_char_mapping(window1.token2char_end, window2.token2char_end,
                                 tokens_intersection, w2_starting_offset) ]

\* lines 195-230
MergeWords(window1, window2) ==
    LET w1_words == window1.words
        w2_words == window2.words
        words_intersection == FindIntersection(w1_words, w2_words)
        w2_starting_offset == Len(w1_words) - words_intersection
    IN  [ words |-> w1_words
                    \o SubSeq(w2_words, words_intersection + 1, Len(w2_words)),
          token2word_start |->
              merge_word_mapping(window1.token2word_start, window2.token2word_start,
                                 words_intersection, w2_starting_offset),
          token2word_end |->
              merge_word_mapping(window1.token2word_end, window2.token2word_end,
                                 words_intersection, w2_starting_offset) ]

----------------------------------------------------------------------------
(* _merge_span_annotation *)

RECURSIVE Dedup(_)
\* keep the first occurrence of every element (the uniq_store loop)
Dedup(s) ==
    IF s = <<>> THEN <<>>
    ELSE LET n == Len(s)
             rest == Dedup(SubSeq(s, 1, n - 1))
         IN  IF s[n] \in Range(rest) THEN rest ELSE Append(rest, s[n])

RECURSIVE InsertByStart(_, _)
InsertByStart(sorted, x) ==
    IF sorted = <<>> THEN <<x>>
    ELSE LET n == Len(sorted)
         IN  IF sorted[n][1] <= x[1] THEN Append(sorted, x)
             ELSE Append(InsertByStart(SubSeq(sorted, 1, n - 1), x), sorted[n])

RECURSIVE SortByStart(_)
\* sorted(..., key=lambda x: x[0]): stable
SortByStart(s) ==
    IF s = <<>> THEN <<>>
    ELSE InsertByStart(SortByStart(SubSeq(s, 1, Len(s) - 1)), s[Len(s)])

\* lines 233-243, both arguments being lists
MergeSpanAnnotation(span_annotation1, span_annotation2) ==
    SortByStart(Dedup(span_annotation1 \o span_annotation2))

----------------------------------------------------------------------------
(* _merge_predictions *)

\* order of the span tuples (start, end)
LessSpan(a, b) == a[1] < b[1] \/ (a[1] = b[1] /\ a[2] < b[2])

RECURSIVE SortedSpans(_)
\* sorted(set of spans)
SortedSpans(S) ==
    IF S = {} THEN <<>>
    ELSE LET m == CHOOSE x \in S : \A y \in S \ {x} : LessSpan(x, y)
         IN  <<m>> \o SortedSpans(S \ {m})

\* order of the relation labels as Python orders the strings
RelRank == [r \in {"r", "s"} |-> IF r = "r" THEN 1 ELSE 2]

LessTriple(a, b) ==
    \/ a[1] < b[1]
    \/ a[1] = b[1] /\ RelRank[a[2]] < RelRank[b[2]]
    \/ a[1] = b[1] /\ a[2] = b[2] /\ a[3] < b[3]
    \/ a[1] = b[1] /\ a[2] = b[2] /\ a[3] = b[3] /\ a[4] < b[4]

RECURSIVE SortedTriples(_)
\* sorted(set of triples)
SortedTriples(S) ==
    IF S = {} THEN <<>>
    ELSE LET m == CHOOSE x \in S : \A y \in S \ {x} : LessTriple(x, y)
         IN  <<m>> \o SortedTriples(S \ {m})

\* list.index(x), 0-based
IndexOf(s, x) ==
    (CHOOSE j \in 1..Len(s) : s[j] = x /\ \A i \in 1..(j - 1) : s[i] # x) - 1

\* variant: the triple keeps its window-local span indices
TranslateTripleLocal(t, spans, merged_span_predictions) == t

\* lines 286-303: a triple of window w re-expressed over the merged spans
TranslateTriple(t, spans, merged_span_predictions) ==
    << IndexOf(merged_span_predictions, spans[t[1] + 1]),
       t[2],
       IndexOf(merged_span_predictions, spans[t[3] + 1]),
       t[4] >>

\* the items of a probability dict, or nothing when it is None
ProbsOf(w) ==
    IF IsNone(w.probs_window_labels_chars) THEN <<>>
    ELSE Val(w.probs_window_labels_chars)

\* lines 246-315; an empty set() result is the empty list
MergePredictions(window1, window2) ==
    LET both_spans == ~IsNone(window1.predicted_spans)
                      /\ ~IsNone(window2.predicted_spans)
        both_triples == ~IsNone(window1.predicted_triples)
                        /\ ~IsNone(window2.predicted_triples)
        merged_span_predictions ==
            IF both_spans
            THEN SortedSpans(Range(Val(window1.predicted_spans))
                             \cup Range(Val(window2.predicted_spans)))
            ELSE <<>>
        merged_span_probabilities ==
            IF both_spans THEN ProbsOf(window1) @@ ProbsOf(window2) ELSE <<>>
        window1_triplets ==
            {TranslateTriple(t, Val(window1.predicted_spans), merged_span_predictions)
                : t \in Range(Val(window1.predicted_triples))}
        window2_triplets ==
            {TranslateTriple(t, Val(window2.predicted_spans), merged_span_predictions)
                : t \in Range(Val(window2.predicted_triples))}
        merged_triplet_predictions ==
            IF both_spans /\ both_triples
            THEN SortedTriples(window1_triplets \cup window2_triplets)
            ELSE <<>>
    IN  [ predicted_spans |-> merged_span_predictions,
          predicted_spans_probs |-> merged_span_probabilities,
          predicted_triples |-> merged_triplet_predictions,
          predicted_triples_probs |-> <<>> ]

----------------------------------------------------------------------------
(* _merge_candidates *)

\* list(set(xs)): the distinct elements, in an order the code does not fix
\* and nothing below depends on
ListOfSet(S) == CHOOSE s \in [1..Cardinality(S) -> S] : Range(s) = S

\* the list bound to the local name after the two getattr tests of one
\* candidate field: window1's own list object, extended in place by +=
\* when window2 carries the field too
CandidateLocal(c1, c2) ==
    IF ~IsNone(c1)
    THEN IF ~IsNone(c2) THEN Val(c1) \o Val(c2) ELSE Val(c1)
    ELSE IF ~IsNone(c2) THEN Val(c2) ELSE <<>>

\* what window1's own list holds after _merge_candidates
CandidateAfter(c1, c2) ==
    IF ~IsNone(c1) /\ ~IsNone(c2) THEN Some(Val(c1) \o Val(c2)) ELSE c1

\* lines 318-354: the four returned lists
MergeCandidates(window1, window2) ==
    [ candidates |->
          ListOfSet(Range(CandidateLocal(window1.candidates, window2.candidates))),
      windows_candidates |->
          ListOfSet(Range(CandidateLocal(window1.windows_candidates,
                                         window2.windows_candidates))),
      span_candidates |->
          ListOfSet(Range(CandidateLocal(window1.span_candidates,
                                         window2.span_candidates))),
      triplet_candidates |->
          ListOfSet(Range(CandidateLocal(window1.triplet_candidates,
                                         window2.triplet_candidates))) ]

\* lines 324-345: window1 as _merge_candidates leaves it
Window1AfterCandidates(window1, window2) ==
    [window1 EXCEPT
        !.candidates = CandidateAfter(window1.candidates, window2.candidates),
        !.windows_candidates =
            CandidateAfter(window1.windows_candidates, window2.windows_candidates),
        !.span_candidates =
            CandidateAfter(window1.span_candidates, window2.span_candidates),
        !.triplet_candidates =
            CandidateAfter(window1.triplet_candidates, window2.triplet_candidates)]

----------------------------------------------------------------------------
(* _merge_window_pair *)

\* lines 366-369
OffsetAssertFails(window1, window2) ==
    ~IsNone(window1.offset) /\ ~(Val(window1.offset) < Val(window2.offset))

\* lines 389-393: iterating chain(window1.window_labels, None) raises
LabelsRaise(window1, window2) ==
    ~IsNone(window1.window_labels) /\ IsNone(window2.window_labels)

MergedLabels(window1, window2) ==
    IF ~IsNone(window1.window_labels)
    THEN Some(MergeSpanAnnotation(Val(window1.window_labels),
                                  Val(window2.window_labels)))
    ELSE None

\* lines 402-422: the new sample
MergedSample(window1, window2) ==
    LET mt == MergeTokens(window1, window2)
        mw == MergeWords(window1, window2)
        mc == MergeCandidates(window1, window2)
        mp == MergePredictions(window1, window2)
    IN  [BlankSample EXCEPT
            !.doc_id = window1.doc_id,
            !.offset = window2.offset,
            !.tokens = mt.tokens,
            !.words = mw.words,
            !.token2char_start = mt.token2char_start,
            !.token2char_end = mt.token2char_end,
            !.token2word_start = Some(mw.token2word_start),
            !.token2word_end = Some(mw.token2word_end),
            !.window_labels = MergedLabels(window1, window2),
            !.candidates = Some(mc.candidates),
            !.span_candidates = Some(mc.span_candidates),
            !.triplet_candidates = Some(mc.triplet_candidates),
            !.windows_candidates = Some(mc.windows_candidates),
            !.predicted_spans = Some(mp.predicted_spans),
            !.predicted_spans_probs = Some(mp.predicted_spans_probs),
            !.predicted_triples = Some(mp.predicted_triples),
            !.predicted_triples_probs = Some(mp.predicted_triples_probs)]

\* lines 356-422: the outcome of one call: the exception raised ("" if none),
\* the returned sample, and window1 as the call leaves it
MergeWindowPair(window1, window2) ==
    IF window1.doc_id # window2.doc_id \/ OffsetAssertFails(window1, window2)
    THEN [raised |-> "AssertionError", result |-> BlankSample, window1 |-> window1]
    ELSE IF LabelsRaise(window1, window2)
    THEN [raised |-> "TypeError", result |-> BlankSample,
          window1 |-> Window1AfterCandidates(window1, window2)]
    ELSE [raised |-> "", result |-> MergedSample(window1, window2),
          window1 |-> Window1AfterCandidates(window1, window2)]

----------------------------------------------------------------------------
(* merge_windows and _merge_doc_windows *)

RECURSIVE GroupByDoc(_, _)
\* lines 128-130: windows_by_doc_id, in the order the doc_ids are first seen
GroupByDoc(ws, n) ==
    IF n = 0 THEN <<>>
    ELSE LET g == GroupByDoc(ws, n - 1)
             d == ws[n].doc_id
         IN  IF \E j \in 1..Len(g) : g[j][1] = d
             THEN [j \in 1..Len(g) |->
                     IF g[j][1] = d THEN <<d, Append(g[j][2], n)>> ELSE g[j]]
             ELSE Append(g, <<d, <<n>> >>)

RECURSIVE InsertByOffset(_, _, _)
InsertByOffset(ws, sorted, r) ==
    IF sorted = <<>> THEN <<r>>
    ELSE LET n == Len(sorted)
         IN  IF Val(ws[sorted[n]].offset) <= Val(ws[r].offset)
             THEN Append(sorted, r)
             ELSE Append(InsertByOffset(ws, SubSeq(sorted, 1, n - 1), r), sorted[n])

RECURSIVE SortByOffset(_, _)
\* sorted(windows, key=lambda x: x.offset): stable
SortByOffset(ws, refs) ==
    IF refs = <<>> THEN <<>>
    ELSE InsertByOffset(ws, SortByOffset(ws, SubSeq(refs, 1, Len(refs) - 1)),
                        refs[Len(refs)])

\* lines 143-144
SortedDocWindows(ws, refs) ==
    IF Len(refs) > 0 /\ ~IsNone(ws[refs[1]].offset)
    THEN SortByOffset(ws, refs) ELSE refs

\* lines 128-130
MergeEnter ==
    /\ pc = "merge_windows"
    /\ windows_by_doc_id' = GroupByDoc(windows, Len(windows))
    /\ merged_window_by_doc' = <<>>
    /\ cur' = 0
    /\ pc' = "merge_docs"
    /\ UNCHANGED <<createVars, windows, doc_windows, next_pos, window_accumulator>>

\* lines 140-141: a document with one window: that window itself is returned
MergeSingleWindow ==
    /\ pc = "merge_docs"
    /\ cur < Len(windows_by_doc_id)
    /\ LET g == windows_by_doc_id[cur + 1]
       IN  /\ Len(g[2]) = 1
           /\ merged_window_by_doc' =
                 Append(merged_window_by_doc,
                        [doc_id |-> g[1], ref |-> g[2][1], sample |-> windows[g[2][1]]])
    /\ cur' = cur + 1
    /\ UNCHANGED <<pc, createVars, windows, windows_by_doc_id, doc_windows,
                   next_pos, window_accumulator>>

\* lines 143-146: sort, the first window is the accumulator
MergeDocEnter ==
    /\ pc = "merge_docs"
    /\ cur < Len(windows_by_doc_id)
    /\ LET g == windows_by_doc_id[cur + 1]
           sorted == SortedDocWindows(windows, g[2])
       IN  /\ Len(g[2]) # 1
           /\ doc_windows' = sorted
           /\ window_accumulator' = [ref |-> sorted[1], sample |-> windows[sorted[1]]]
    /\ next_pos' = 2
    /\ pc' = "fold"
    /\ UNCHANGED <<createVars, windows, windows_by_doc_id, merged_window_by_doc, cur>>

\* lines 148-151: one iteration of the fold
MergeStep ==
    /\ pc = "fold"
    /\ next_pos <= Len(doc_windows)
    /\ LET out == MergeWindowPair(window_accumulator.sample,
                                  windows[doc_windows[next_pos]])
       IN  /\ windows' = IF window_accumulator.ref = 0 THEN windows
                         ELSE [windows EXCEPT ![window_accumulator.ref] = out.window1]
           /\ IF out.raised # ""
              THEN /\ pc' = out.raised
                   /\ UNCHANGED <<window_accumulator, next_pos>>
              ELSE /\ window_accumulator' = [ref |-> 0, sample |-> out.result]
                   /\ next_pos' = next_pos + 1
                   /\ pc' = pc
    /\ UNCHANGED <<createVars, windows_by_doc_id, merged_window_by_doc, cur,
                   doc_windows>>

\* line 153 and the dict comprehension of lines 132-135
MergeDocReturn ==
    /\ pc = "fold"
    /\ next_pos > Len(doc_windows)
    /\ merged_window_by_doc' =
          Append(merged_window_by_doc,
                 [doc_id |-> windows_by_doc_id[cur + 1][1],
                  ref |-> window_accumulator.ref,
                  sample |-> window_accumulator.sample])
    /\ cur' = cur + 1
    /\ pc' = "merge_docs"
    /\ UNCHANGED <<createVars, windows, windows_by_doc_id, doc_windows, next_pos,
                   window_accumulator>>

\* line 137
MergeReturn ==
    /\ pc = "merge_docs"
    /\ cur = Len(windows_by_doc_id)
    /\ pc' = "merged"
    /\ UNCHANGED <<createVars, mergeVars>>

NextMerge ==
    \/ MergeEnter \/ MergeSingleWindow \/ MergeDocEnter \/ MergeStep
    \/ MergeDocReturn \/ MergeReturn

\* the primary output of create_windows is handed to merge_windows
MergeCreated ==
    /\ pc = "created"
    /\ windows' = [j \in 1..Len(windowed_documents) |-> SampleAttrs(windowed_documents[j])]
    /\ pc' = "merge_windows"
    /\ UNCHANGED <<createVars, windows_by_doc_id, merged_window_by_doc, cur,
                   doc_windows, next_pos, window_accumulator>>

----------------------------------------------------------------------------
(* Inputs of merge_windows *)

Reverse(s) == [j \in 1..Len(s) |-> s[Len(s) + 1 - j]]

CLS == "[CLS]"
SEP == "[SEP]"

Vocab == {"x", "y"}
Contents == SeqsUpTo(Vocab, MaxContentLen)

\* the j-th window of a document in offset order: content bracketed by the
\* boundary markers, token maps keyed by the window-local token index
\* (markers included), word maps keyed by the word index
ContentWindow(j, content, has_word_maps) ==
    LET off == 10 * (j - 1)
        n == Len(content)
        word_map == [key \in {str(t) : t \in 0..(n - 1)} |-> off + int(key)]
    IN  [BlankSample EXCEPT
            !.offset = Some(off),
            !.tokens = <<CLS>> \o content \o <<SEP>>,
            !.words = content,
            !.token2char_start = [key \in {str(t) : t \in 0..(n + 1)} |-> off + int(key)],
            !.token2char_end = [key \in {str(t) : t \in 0..(n + 1)} |-> off + int(key) + 1],
            !.token2word_start = IF has_word_maps THEN Some(word_map) ELSE None,
            !.token2word_end = IF has_word_maps THEN Some(word_map) ELSE None]

\* the state on entry of merge_windows with the given samples
MergeCalled(ws) ==
    /\ pc = "merge_windows"
    /\ windows = ws
    /\ windows_by_doc_id = <<>> /\ merged_window_by_doc = <<>> /\ cur = 0
    /\ doc_windows = <<>> /\ next_pos = 0 /\ window_accumulator = <<>>
    /\ CreateIdle

\* one window or a pair of windows with arbitrary contents, with or without
\* word maps
InitOverlap ==
    \E n \in 1..2 :
    \E contents \in [1..n -> Contents] :
    \E has_word_maps \in [1..n -> BOOLEAN] :
       MergeCalled([j \in 1..n |-> ContentWindow(j, contents[j], has_word_maps[j])])

LabelsOf(j) ==
    IF j % 2 = 1 THEN << <<0, 3, "PER">> >>
    ELSE << <<4, 6, "LOC">>, <<0, 3, "PER">> >>
CandidatesOf(j) == IF j % 2 = 1 THEN <<"x">> ELSE <<"y", "x">>
SpansOf(j) == IF j % 2 = 1 THEN << <<2, 3>> >> ELSE << <<0, 1>>, <<2, 3>> >>
ProbsFor(spans, p) == [sp \in Range(spans) |-> p]

\* the j-th window with each optional field present or absent
OptionalWindow(j, has) ==
    [ContentWindow(j, <<"x">>, FALSE) EXCEPT
        !.window_labels = IF has.window_labels THEN Some(LabelsOf(j)) ELSE None,
        !.candidates = IF has.candidates THEN Some(CandidatesOf(j)) ELSE None,
        !.windows_candidates = IF has.candidates THEN Some(CandidatesOf(j)) ELSE None,
        !.span_candidates = IF has.candidates THEN Some(CandidatesOf(j)) ELSE None,
        !.triplet_candidates = IF has.candidates THEN Some(CandidatesOf(j)) ELSE None,
        !.predicted_spans = IF has.predicted_spans THEN Some(SpansOf(j)) ELSE None,
        !.probs_window_labels_chars =
            IF has.predicted_spans_probs THEN Some(ProbsFor(SpansOf(j), j)) ELSE None,
        !.predicted_triples =
            IF has.predicted_triples THEN Some(<< <<0, "r", 0, 1>> >>) ELSE None]

OptionalFields ==
    [window_labels : BOOLEAN, candidates : BOOLEAN, predicted_spans : BOOLEAN,
     predicted_spans_probs : BOOLEAN, predicted_triples : BOOLEAN]

\* every combination of optional fields, the windows passed in offset order
\* or reversed
InitOptional ==
    \E n \in 1..MaxPairWindows :
    \E has \in [1..n -> OptionalFields] :
    \E reversed \in BOOLEAN :
       LET ws == [j \in 1..n |-> OptionalWindow(j, has[j])]
       IN  MergeCalled(IF reversed THEN Reverse(ws) ELSE ws)

SpanVals == {<<0, 1>>, <<2, 3>>}
SpanLists ==
    {sl \in SeqsUpTo(SpanVals, Cardinality(SpanVals)) :
        \A i, j \in DOMAIN sl : sl[i] = sl[j] => i = j}

\* the triples over n spans: (head index, relation, tail index, score)
Triples(n) == {<<h, "r", t, 1>> : h \in 0..(n - 1), t \in 0..(n - 1)}

\* <<predicted_spans, predicted_triples>> of a window whose triples reference
\* valid indices of its own predicted_spans: any list of triples
Predictions ==
    {<<None, tr>> : tr \in {None, Some(<<>>)}}
    \cup UNION {{<<Some(sl), tr>> :
                   tr \in {None} \cup {Some(tl) : tl \in SeqsUpTo(Triples(Len(sl)), MaxTriples)}} :
                sl \in SpanLists}

\* the same with at most the triple from the first span to the last
LinkPredictions ==
    {<<None, tr>> : tr \in {None, Some(<<>>)}}
    \cup UNION {{<<Some(sl), tr>> :
                   tr \in {None, Some(<<>>)}
                          \cup (IF sl = <<>> THEN {}
                                ELSE {Some(<< <<0, "r", Len(sl) - 1, 1>> >>)})} :
                sl \in SpanLists}

PredictionWindow(j, p) ==
    [ContentWindow(j, <<"x">>, FALSE) EXCEPT
        !.predicted_spans = p[1],
        !.probs_window_labels_chars =
            IF IsNone(p[1]) THEN None ELSE Some(ProbsFor(Val(p[1]), j)),
        !.predicted_triples = p[2]]

\* a pair of windows with any predictions, or a longer fold of windows with
\* at most one triple each
InitPredictions ==
    \/ \E ps \in [1..2 -> Predictions] :
          MergeCalled([j \in 1..2 |-> PredictionWindow(j, ps[j])])
    \/ \E n \in 1..MaxFoldWindows :
       \E ps \in [1..n -> LinkPredictions] :
          MergeCalled([j \in 1..n |-> PredictionWindow(j, ps[j])])

\* create_windows on str documents without mentions and topic, then
\* merge_windows on its primary output
RoundTripDocs == {Join(ws) : ws \in SeqsUpTo(Words, MaxRoundTripLen)}

RoundTripInputs ==
    {[documents |-> docs, is_split_into_words |-> FALSE,
      mentions |-> None, doc_topic |-> None] :
        docs \in {<<doc>> : doc \in RoundTripDocs}
                 \cup UNION {[1..n -> StrDocs] : n \in 1..MaxDocs}}

InitRoundTrip == \E args \in RoundTripInputs : CreateCalled(args)

NextCreate == CreateEnter \/ NextDocument \/ BuildWindow \/ EndDocument \/ CreateReturn

NextRoundTrip == NextCreate \/ MergeCreated \/ NextMerge

SpecCreate == InitCreate /\ [][NextCreate]_vars
SpecOverlap == InitOverlap /\ [][NextMerge]_vars
SpecOptional == InitOptional /\ [][NextMerge]_vars
SpecPredictions == InitPredictions /\ [][NextMerge]_vars
SpecRoundTrip == InitRoundTrip /\ [][NextRoundTrip]_vars

----------------------------------------------------------------------------
(* Properties of create_windows *)

AllSamples ==
    Range(windowed_documents) \cup Range(windowed_blank_documents)
    \cup Range(document_windows)

PrimarySamples == Range(windowed_documents) \cup Range(document_windows)

\* offset of the window's last token plus that token's length
TextEndOf(s) == s.token2char_end[str(Len(s.tokens) - 1)]

\* C4 (as stated): every span [start, end] attached to a window satisfies
\* window_text_start <= start < end <= window_text_end, whatever mentions
\* were supplied.
C4_StrictSpans ==
    \A s \in AllSamples : \A sp \in Range(s.spans) :
        s.offset <= sp[1] /\ sp[1] < sp[2] /\ sp[2] <= TextEndOf(s)

\* C4 (amended): every span attached to a window is one of the mentions
\* supplied for the window's document, and both of its endpoints lie in the
\* window: window_text_start <= start < window_text_end and
\* window_text_start <= end <= window_text_end.
C4_SpanEndpointsInWindow ==
    \A s \in AllSamples : \A sp \in Range(s.spans) :
        /\ sp \in Range(DocumentMentions(s.doc_id + 1))
        /\ s.offset <= sp[1] /\ sp[1] < TextEndOf(s)
        /\ s.offset <= sp[2] /\ sp[2] <= TextEndOf(s)

\* a window carries a span whose start is not before its end
C4_Witness ==
    \E s \in Range(windowed_documents) : \E sp \in Range(s.spans) : sp[1] >= sp[2]

\* document-level index of the window's first token
FirstTokenIndex(s) ==
    LET toks == documents_tokens[s.doc_id + 1]
    IN  (CHOOSE j \in 1..Len(toks) : toks[j].idx = s.offset) - 1

\* C5 (as stated): in every window, for every window-local token index k,
\* char2token_start[token2char_start[k]] = k and
\* char2token_end[token2char_end[k]] = k.
C5_RoundTripLocal ==
    \A s \in AllSamples : \A k \in 0..(Len(s.tokens) - 1) :
        /\ s.char2token_start[str(s.token2char_start[str(k)])] = k
        /\ s.char2token_end[str(s.token2char_end[str(k)])] = k

\* C5 (amended): in every window, for every window-local token index k, the
\* round trip yields the document-level index of that token: k plus the
\* document-level index of the window's first token.
C5_RoundTripGlobal ==
    \A s \in AllSamples : \A k \in 0..(Len(s.tokens) - 1) :
        /\ s.char2token_start[str(s.token2char_start[str(k)])] = k + FirstTokenIndex(s)
        /\ s.char2token_end[str(s.token2char_end[str(k)])] = k + FirstTokenIndex(s)

\* a later window of a document, with several tokens, has been produced
C5_Witness ==
    \E s \in AllSamples : s.window_id >= 1 /\ Len(s.tokens) >= 2

NumWindows(d) == Len(Splitter(documents_tokens[d], window_size, stride))

Occurrences(out, d, w) ==
    Cardinality({j \in 1..Len(out) : out[j].doc_id = d /\ out[j].window_id = w})

\* C6: a window is in the blank output iff mentions were supplied and it has
\* no span, else in the primary output; once create_windows has returned,
\* every window of every document is in exactly one output; the primary
\* output is ordered by document, then by the splitter's window order.
C6_Routing ==
    /\ \A s \in PrimarySamples : IsNone(mentions) \/ Len(s.spans) > 0
    /\ \A s \in Range(windowed_blank_documents) :
          ~IsNone(mentions) /\ Len(s.spans) = 0
    /\ IsNone(mentions) => windowed_blank_documents = <<>>
    /\ \A i, j \in 1..Len(windowed_documents) :
          i < j =>
            LET a == windowed_documents[i]
                b == windowed_documents[j]
            IN  a.doc_id < b.doc_id
                \/ (a.doc_id = b.doc_id /\ a.window_id < b.window_id)
    /\ pc = "created" =>
          /\ \A d \in 1..Len(documents) : \A w \in 0..(NumWindows(d) - 1) :
                Occurrences(windowed_documents, d - 1, w)
                + Occurrences(windowed_blank_documents, d - 1, w) = 1
          /\ \A s \in AllSamples :
                s.doc_id < Len(documents) /\ s.window_id < NumWindows(s.doc_id + 1)

\* create_windows has returned a window with a span in the primary output
\* and, of another document, a window without spans in the blank output
C6_Witness ==
    /\ pc = "created"
    /\ \E s \in Range(windowed_documents) : \E b \in Range(windowed_blank_documents) :
          /\ Len(s.spans) > 0
          /\ b.doc_id # s.doc_id

\* C9: without an explicit doc_topic, every window of a document carries
\* the first token of that document.
C9_TopicPerDocument ==
    \A s \in AllSamples :
        s.doc_topic # StrTopic => s.doc_topic = documents_tokens[s.doc_id + 1][1]

----------------------------------------------------------------------------
(* Properties of the pairwise merge, stated over one iteration of the fold *)

\* an iteration of the fold that returned a merged sample
PairStep == pc = "fold" /\ pc' = "fold" /\ next_pos' = next_pos + 1

StepA == window_accumulator.sample
StepB == windows[doc_windows[next_pos]]
StepM == window_accumulator'.sample

\* the last k elements of a equal the first k elements of b
MatchAt(a, b, k) ==
    /\ k <= Len(a) /\ k <= Len(b)
    /\ \A j \in 1..k : a[Len(a) - k + j] = b[j]

LargestIn(S) == IF S = {} THEN 0 ELSE CHOOSE k \in S : \A h \in S : h <= k

\* the longest suffix of a that is a prefix of b
LongestOverlap(a, b) == LargestIn({k \in 1..Len(a) : MatchAt(a, b, k)})

\* the longest proper suffix of a that is a prefix of b
LongestProperOverlap(a, b) == LargestIn({k \in 1..(Len(a) - 1) : MatchAt(a, b, k)})

\* a followed by b from index k onward
Deduplicated(a, b, k) ==
    [j \in 1..(Len(a) + Len(b) - k) |->
        IF j <= Len(a) THEN a[j] ELSE b[j - Len(a) + k]]

ContentOf(w) == StripMarkers(w.tokens)

\* C1 (as stated): the merged content is a's content followed by b's content
\* from index k on, k being the length of the longest suffix of a's content
\* that is a prefix of b's content - also when that is all of a's content.
C1_LongestSuffix ==
    [][PairStep =>
        /\ ContentOf(StepM) =
              Deduplicated(ContentOf(StepA), ContentOf(StepB),
                           LongestOverlap(ContentOf(StepA), ContentOf(StepB)))
        /\ StepM.words =
              Deduplicated(StepA.words, StepB.words,
                           LongestOverlap(StepA.words, StepB.words))]_vars

\* C1 (amended): k is the largest k with 1 <= k <= len(a_content) - 1 such
\* that the last k elements of a's content equal the first k of b's (0 if
\* none); the merged content is a's content followed by b's from index k on,
\* between a's two boundary markers.
C1_LongestProperSuffix ==
    [][PairStep =>
        /\ StepM.tokens =
              <<StepA.tokens[1]>>
              \o Deduplicated(ContentOf(StepA), ContentOf(StepB),
                       LongestProperOverlap(ContentOf(StepA), ContentOf(StepB)))
              \o <<StepA.tokens[Len(StepA.tokens)]>>
        /\ StepM.words =
              Deduplicated(StepA.words, StepB.words,
                           LongestProperOverlap(StepA.words, StepB.words))]_vars

\* the two windows of a merged two-window document, in offset order
PairOf(d) == SortedDocWindows(windows, windows_by_doc_id[d][2])
IsPair(d) == Len(windows_by_doc_id[d][2]) = 2

\* a pair has been merged in which all of a's content is a prefix of b's,
\* and a pair in which two different proper overlaps match
C1_Witness ==
    /\ pc = "merged"
    /\ \E d \in 1..Len(merged_window_by_doc) :
          /\ IsPair(d)
          /\ LET a == windows[PairOf(d)[1]].words
                 b == windows[PairOf(d)[2]].words
             IN  /\ Len(a) >= 1 /\ MatchAt(a, b, Len(a))
                 /\ LongestProperOverlap(a, b) >= 2
                 /\ MatchAt(a, b, 1)

OptDict(o) == IF IsNone(o) THEN <<>> ELSE Val(o)

ShiftedKey(t, a_len, k) == str(int(t) + (a_len - k))

\* every entry of a is in the merged map unchanged; an entry of b with
\* index t >= k is at key t + (a_len - k) unless a holds that key
AWins(ma, mb, mm, a_len, k) ==
    /\ DOMAIN mm = (DOMAIN ma)
          \cup {ShiftedKey(t, a_len, k) : t \in {u \in DOMAIN mb : int(u) >= k}}
    /\ \A key \in DOMAIN ma : mm[key] = ma[key]
    /\ \A t \in DOMAIN mb :
          (int(t) >= k /\ ShiftedKey(t, a_len, k) \notin DOMAIN ma)
             => mm[ShiftedKey(t, a_len, k)] = mb[t]

\* every entry of b with index t >= k is at key t + (a_len - k); an entry of
\* a is in the merged map unchanged unless b's shifted entry took its key
BWins(ma, mb, mm, a_len, k) ==
    LET shifted == {ShiftedKey(t, a_len, k) : t \in {u \in DOMAIN mb : int(u) >= k}}
    IN  /\ DOMAIN mm = (DOMAIN ma) \cup shifted
        /\ \A t \in DOMAIN mb :
              int(t) >= k => mm[ShiftedKey(t, a_len, k)] = mb[t]
        /\ \A key \in (DOMAIN ma) \ shifted : mm[key] = ma[key]

TokenK == LongestProperOverlap(ContentOf(StepA), ContentOf(StepB))
WordK == LongestProperOverlap(StepA.words, StepB.words)

\* C8 (as stated): every entry of a's token and word maps is in the merged
\* map unchanged, a's entry winning on a key collision; b's entry t is
\* dropped if t < k, else placed at t + (len(a_content) - k).
C8_FirstWindowWins ==
    [][PairStep =>
        /\ AWins(StepA.token2char_start, StepB.token2char_start,
                 StepM.token2char_start, Len(ContentOf(StepA)), TokenK)
        /\ AWins(StepA.token2char_end, StepB.token2char_end,
                 StepM.token2char_end, Len(ContentOf(StepA)), TokenK)
        /\ AWins(OptDict(StepA.token2word_start), OptDict(StepB.token2word_start),
                 Val(StepM.token2word_start), Len(StepA.words), WordK)
        /\ AWins(OptDict(StepA.token2word_end), OptDict(StepB.token2word_end),
                 Val(StepM.token2word_end), Len(StepA.words), WordK)]_vars

\* C8 (amended): b's entry t is dropped if t < k, else placed at
\* t + (len(a_content) - k) with its value, replacing a's entry at that key
\* if a has one; every other entry of a is in the merged map unchanged.
C8_SecondWindowWins ==
    [][PairStep =>
        /\ BWins(StepA.token2char_start, StepB.token2char_start,
                 StepM.token2char_start, Len(ContentOf(StepA)), TokenK)
        /\ BWins(StepA.token2char_end, StepB.token2char_end,
                 StepM.token2char_end, Len(ContentOf(StepA)), TokenK)
        /\ BWins(OptDict(StepA.token2word_start), OptDict(StepB.token2word_start),
                 Val(StepM.token2word_start), Len(StepA.words), WordK)
        /\ BWins(OptDict(StepA.token2word_end), OptDict(StepB.token2word_end),
                 Val(StepM.token2word_end), Len(StepA.words), WordK)]_vars

\* a pair with an overlap has been merged whose marker-keyed token maps
\* collide: b's shifted entry sits at a key of a whose value differed
C8_Witness ==
    /\ pc = "merged"
    /\ \E d \in 1..Len(merged_window_by_doc) :
          /\ IsPair(d)
          /\ LET a == windows[PairOf(d)[1]]
                 b == windows[PairOf(d)[2]]
                 m == merged_window_by_doc[d].sample
                 k == LongestProperOverlap(ContentOf(a), ContentOf(b))
                 key == str(Len(ContentOf(a)) + 1)
             IN  /\ k >= 1
                 /\ key \in DOMAIN a.token2char_start
                 /\ m.token2char_start[key] = b.token2char_start[str(k + 1)]
                 /\ m.token2char_start[key] # a.token2char_start[key]
                 /\ ~IsNone(a.token2word_start) /\ ~IsNone(b.token2word_start)

----------------------------------------------------------------------------
(* Properties of merge_windows *)

\* C2: merge_windows leaves every field of every input window as it was.
C2_InputsUnchanged == [][windows' = windows]_vars

Absent(w1, w2, f) == IsNone(w1[f]) /\ IsNone(w2[f])
EmptyOrOmitted(o) == IsNone(o) \/ Val(o) = <<>>

\* C3: whatever optional fields the two windows carry, the pairwise merge
\* raises no error, and a field absent on both is empty or omitted in the
\* merged sample.
C3_NoErrorOnMissingField ==
    /\ pc \notin {"TypeError", "AssertionError"}
    /\ pc = "merged" =>
         \A d \in 1..Len(merged_window_by_doc) :
            IsPair(d) =>
              LET a == windows[PairOf(d)[1]]
                  b == windows[PairOf(d)[2]]
                  m == merged_window_by_doc[d].sample
              IN  /\ Absent(a, b, "window_labels") => EmptyOrOmitted(m.window_labels)
                  /\ Absent(a, b, "candidates") => EmptyOrOmitted(m.candidates)
                  /\ Absent(a, b, "predicted_spans") => EmptyOrOmitted(m.predicted_spans)
                  /\ Absent(a, b, "predicted_triples") => EmptyOrOmitted(m.predicted_triples)

SpansIn(w) == IF IsNone(w.predicted_spans) THEN <<>> ELSE Val(w.predicted_spans)
TriplesIn(w) == IF IsNone(w.predicted_triples) THEN {} ELSE Range(Val(w.predicted_triples))

TriplesValid(w) ==
    \A t \in TriplesIn(w) :
        /\ t[1] \in 0..(Len(SpansIn(w)) - 1)
        /\ t[3] \in 0..(Len(SpansIn(w)) - 1)

\* merged triple u designates the spans, label and score of triple t of w
Designates(m, u, w, t) ==
    /\ SpansIn(m)[u[1] + 1] = SpansIn(w)[t[1] + 1]
    /\ u[2] = t[2]
    /\ SpansIn(m)[u[3] + 1] = SpansIn(w)[t[3] + 1]
    /\ u[4] = t[4]

BothCarry(a, b) ==
    /\ ~IsNone(a.predicted_spans) /\ ~IsNone(b.predicted_spans)
    /\ ~IsNone(a.predicted_triples) /\ ~IsNone(b.predicted_triples)

\* C7: after every iteration of the fold the accumulator's triples
\* reference valid indices of the accumulator's spans; when both merged
\* windows carry spans and triples, the merged triples are exactly the
\* source triples, each designating the same span values, label and score.
C7_TriplesFollowSpans ==
    [][PairStep =>
        /\ TriplesValid(StepM)
        /\ BothCarry(StepA, StepB) =>
              /\ \A w \in {StepA, StepB} : \A t \in TriplesIn(w) :
                    \E u \in TriplesIn(StepM) : Designates(StepM, u, w, t)
              /\ \A u \in TriplesIn(StepM) :
                    \E w \in {StepA, StepB} : \E t \in TriplesIn(w) :
                       Designates(StepM, u, w, t)]_vars

\* two iterations of a fold are done and a triple of the first window,
\* which referenced its span 0, now references merged span 1
C7_Witness ==
    /\ pc = "fold"
    /\ next_pos > 3
    /\ window_accumulator.ref = 0
    /\ SpansIn(windows[doc_windows[1]]) = << <<2, 3>> >>
    /\ <<0, "r", 0, 1>> \in TriplesIn(windows[doc_windows[1]])
    /\ <<1, "r", 1, 1>> \in TriplesIn(window_accumulator.sample)
    /\ Len(SpansIn(window_accumulator.sample)) = 2

\* C10: the words of the merged sample of a document are the words of the
\* document.
C10_RoundTrip ==
    pc = "merged" =>
        \A d \in 1..Len(merged_window_by_doc) :
            LET toks == documents_tokens[merged_window_by_doc[d].doc_id + 1]
            IN  merged_window_by_doc[d].sample.words
                    = [j \in 1..Len(toks) |-> toks[j].text]

=============================================================================
